---- MODULE Spec2Model ----
(***************************************************************************)
(* A model of yajq (src/main.rs): parse_expression splits a path           *)
(* expression into tokens, filter walks a serde_json Value along them.     *)
(*                                                                         *)
(* Text (an expression, a key, an error message) is a sequence of          *)
(* one-character strings, so that splitting, comparing and parsing it are  *)
(* computed and not assumed.                                               *)
(***************************************************************************)
EXTENDS Integers, Sequences, FiniteSets

VARIABLES
    pc,          \* where the run is: "ready", "done", or a step of the walk
    expression,  \* the text given to parse_expression
    data,        \* the document given to filter (borrowed, read-only)
    tokens,      \* the token sequence given to filter
    result,      \* what the operation returned (NoOutcome before it has)
    stack,       \* the active calls of filter, outermost first
    ret,         \* the outcome a finished call hands to its caller
    maxdepth     \* the largest number of nested recursive calls seen so far

vars == <<pc, expression, data, tokens, result, stack, ret, maxdepth>>

(***************************************************************************)
(* Bounds of the model.                                                    *)
(***************************************************************************)
\* A document has at most this many nodes (scalars, arrays and objects).
MaxNodes == 3
\* A token sequence given to filter has at most this many tokens.
MaxTokens == 3
\* An expression given to parse_expression has at most this many characters.
MaxExprLen == 4

(***************************************************************************)
(* serde_json::Value                                                       *)
(***************************************************************************)
Null == [type |-> "Null"]
Bool(b) == [type |-> "Bool", b |-> b]
Number(n) == [type |-> "Number", n |-> n]
String(s) == [type |-> "String", s |-> s]
Array(items) == [type |-> "Array", items |-> items]
Object(fields) == [type |-> "Object", fields |-> fields]

\* One value of each scalar shape.
Scalars == {Null, Bool(TRUE), Number(1), String(<<"v">>)}

\* The field names the objects of the model draw from, in a fixed order.
KeyList == << <<>>, <<"a">> >>

\* The ways to choose n of the names of KeyList, kept in KeyList's order.
KeyChoices(n) ==
    {f \in [1..n -> 1..Len(KeyList)] : \A i, j \in 1..n : i < j => f[i] < f[j]}

\* The object whose fields are the names f chooses, holding the values of s.
ObjectOf(f, s) ==
    Object([k \in {KeyList[f[i]] : i \in 1..Len(s)} |->
               s[CHOOSE i \in 1..Len(s) : KeyList[f[i]] = k]])

RECURSIVE ValuesOfSize(_), SeqsOfSize(_)
\* The sequences of values that have m nodes in all.
SeqsOfSize(m) ==
    IF m = 0 THEN {<<>>}
    ELSE UNION {{<<v>> \o s : v \in ValuesOfSize(k), s \in SeqsOfSize(m - k)} :
                k \in 1..m}

\* The values that have exactly n nodes.
ValuesOfSize(n) ==
    IF n = 1 THEN Scalars \cup {Array(<<>>), Object(<<>>)}
    ELSE {Array(s) : s \in SeqsOfSize(n - 1)}
         \cup UNION {{ObjectOf(f, s) : f \in KeyChoices(Len(s))} :
                     s \in {t \in SeqsOfSize(n - 1) : Len(t) <= Len(KeyList)}}

\* The documents of the model.
Values == UNION {ValuesOfSize(n) : n \in 1..MaxNodes}

(***************************************************************************)
(* enum Token                                                              *)
(***************************************************************************)
Any == [tok |-> "Any"]
Key(text) == [tok |-> "Key", key |-> text]

\* The key texts the token sequences of the model draw from.
KeyTexts == {<<>>, <<"a">>, <<"0">>, <<"1">>, <<"0", "1">>}

Tokens == {Any} \cup {Key(k) : k \in KeyTexts}

TokenSeqs == UNION {[1..n -> Tokens] : n \in 0..MaxTokens}

(***************************************************************************)
(* Outcomes of a call: Result<T, YajqError>, or a panic that unwinds.      *)
(***************************************************************************)
Ok(v) == [kind |-> "Ok", value |-> v]
Err(e) == [kind |-> "Err", error |-> e]
\* No outcome yet.
NoOutcome == [kind |-> "None"]
\* "index out of bounds: the len is {len} but the index is {index}"
Panic(index, len) == [kind |-> "Panic", index |-> index, len |-> len]

\* YajqError::Filtering(String) and YajqError::Parsing(num::ParseIntError)
Filtering(msg) == [variant |-> "Filtering", msg |-> msg]
Parsing(kind) == [variant |-> "Parsing", kind |-> kind]

(***************************************************************************)
(* parse_expression                                                        *)
(***************************************************************************)
\* The position of the first '.' of s, or 0 when it has none.
FirstDot(s) ==
    IF \E i \in 1..Len(s) : s[i] = "."
    THEN CHOOSE i \in 1..Len(s) : s[i] = "." /\ \A j \in 1..(i - 1) : s[j] # "."
    ELSE 0

RECURSIVE splitSkipEmpty(_)
\* A split that drops the empty substrings.
splitSkipEmpty(s) ==
    IF FirstDot(s) = 0 THEN (IF s = <<>> THEN <<>> ELSE <<s>>)
    ELSE (IF FirstDot(s) = 1 THEN <<>> ELSE <<SubSeq(s, 1, FirstDot(s) - 1)>>)
         \o splitSkipEmpty(SubSeq(s, FirstDot(s) + 1, Len(s)))

RECURSIVE split(_)
\* str::split('.'): the substrings between the dots, empty ones kept.
split(s) ==
    IF FirstDot(s) = 0 THEN <<s>>
    ELSE <<SubSeq(s, 1, FirstDot(s) - 1)>> \o split(SubSeq(s, FirstDot(s) + 1, Len(s)))

\* The closure of the map: "*" => Token::Any, _ => Token::Key(element).
TokenOf(element) == IF element = <<"*">> THEN Any ELSE Key(element)

parse_expression(expr) ==
    [i \in 1..Len(split(expr)) |-> TokenOf(split(expr)[i])]

(***************************************************************************)
(* str::parse::<usize>, as filter uses it on a key                         *)
(***************************************************************************)
Digits == <<"0", "1", "2", "3", "4", "5", "6", "7", "8", "9">>

IsDigit(c) == \E d \in 1..Len(Digits) : Digits[d] = c

DigitValue(c) == (CHOOSE d \in 1..Len(Digits) : Digits[d] = c) - 1

RECURSIVE DecimalValue(_)
\* The number a sequence of digits writes.
DecimalValue(ds) ==
    IF ds = <<>> THEN 0
    ELSE DecimalValue(SubSeq(ds, 1, Len(ds) - 1)) * 10 + DigitValue(ds[Len(ds)])

\* A parse that reads the empty text as 0.
parse_usizeEmptyIsZero(text) ==
    IF text = <<>> THEN Ok(0)
    ELSE IF \E i \in 1..Len(text) : ~IsDigit(text[i]) THEN Err("InvalidDigit")
    ELSE Ok(DecimalValue(text))

\* Ok(n), or Err of the IntErrorKind: an optional leading '+', then digits.
\* IntErrorKind::PosOverflow needs a key of twenty digits or more; the keys
\* of the model are shorter, and the model leaves it out.
parse_usize(text) ==
    IF text = <<>> THEN Err("Empty")
    ELSE IF Len(text) = 1 /\ text[1] \in {"+", "-"} THEN Err("InvalidDigit")
    ELSE LET ds == IF text[1] = "+" THEN Tail(text) ELSE text
         IN IF \E i \in 1..Len(ds) : ~IsDigit(ds[i]) THEN Err("InvalidDigit")
            ELSE Ok(DecimalValue(ds))

(***************************************************************************)
(* filter                                                                  *)
(***************************************************************************)
IsScalar(v) == v.type \in {"Null", "Bool", "Number", "String"}

\* A wildcard that gives null on a value that is no array.
WildcardGivesNull == Ok(Null)

\* Token::Any on a value that is no array.
WildcardError == Err(Filtering(<<"Can't use * on non array">>))

\* The message without the key.
UnitErrorWithoutKey(key) == Err(Filtering(<<"Unit can't be filtered for key ">>))

\* Token::Key(key) on Null, Bool, Number or String.
UnitError(key) == Err(Filtering(<<"Unit can't be filtered for key ">> \o key))

\* A lookup that gives null for a field the object does not have.
ObjectGetOrNull(fields, key) ==
    IF key \in DOMAIN fields THEN Ok(fields[key]) ELSE Ok(Null)

\* object.get(key).ok_or_else(..): the field's value, or the error.
ObjectGet(fields, key) ==
    IF key \in DOMAIN fields THEN Ok(fields[key])
    ELSE Err(Filtering(<<"Key ">> \o key \o <<" not in dict">>))

\* &array[key.parse::<usize>()?]: the element, the parse error, or the
\* panic of indexing a Vec out of bounds.
ArrayIndex(items, key) ==
    LET parsed == parse_usize(key)
    IN IF parsed.kind = "Err" THEN Err(Parsing(parsed.error))
       ELSE IF parsed.value >= Len(items) THEN Panic(parsed.value, Len(items))
       ELSE Ok(items[parsed.value + 1])

\* The value the Key step descends into, or how the step fails.
Descend(v, key) ==
    IF IsScalar(v) THEN UnitError(key)
    ELSE IF v.type = "Object" THEN ObjectGet(v.fields, key)
    ELSE ArrayIndex(v.items, key)

\* A collect that gathers the values in reverse order.
CollectReversed(outcomes) ==
    IF \E i \in 1..Len(outcomes) : outcomes[i].kind # "Ok"
    THEN outcomes[CHOOSE i \in 1..Len(outcomes) :
                      /\ outcomes[i].kind # "Ok"
                      /\ \A j \in 1..(i - 1) : outcomes[j].kind = "Ok"]
    ELSE Ok(Array([i \in 1..Len(outcomes) |->
                      outcomes[Len(outcomes) + 1 - i].value]))

\* collect::<Result<Vec<Value>>>() over the outcomes of the elements: the
\* first outcome that is not Ok ends the iteration and is the outcome of
\* the whole; otherwise Ok(Value::Array(..)) of the values in order.
Collect(outcomes) ==
    IF \E i \in 1..Len(outcomes) : outcomes[i].kind # "Ok"
    THEN outcomes[CHOOSE i \in 1..Len(outcomes) :
                      /\ outcomes[i].kind # "Ok"
                      /\ \A j \in 1..(i - 1) : outcomes[j].kind = "Ok"]
    ELSE Ok(Array([i \in 1..Len(outcomes) |-> outcomes[i].value]))

\* A copy that keeps the shape of an array but not its elements.
OwnedShallow(v) == IF v.type = "Array" THEN Ok(Array(<<>>)) ELSE Ok(v)

\* Ok(data.to_owned()) of the empty token sequence.
Owned(v) == Ok(v)

RECURSIVE filter(_, _)
filter(v, toks) ==
    IF toks = <<>> THEN Owned(v)
    ELSE IF toks[1] = Any
         THEN IF v.type = "Array"
              THEN Collect([i \in 1..Len(v.items) |-> filter(v.items[i], Tail(toks))])
              ELSE WildcardError
         ELSE LET target == Descend(v, toks[1].key)
              IN IF target.kind = "Ok" THEN filter(target.value, Tail(toks))
                 ELSE target

(***************************************************************************)
(* Applying filter to a document and a token sequence: what the tests'     *)
(* filter_ does, and run() for the tokens parse_expression gives it.       *)
(***************************************************************************)
Init ==
    /\ pc = "ready"
    /\ expression = <<>>
    /\ data \in Values
    /\ tokens \in TokenSeqs
    /\ result = NoOutcome
    /\ stack = <<>>
    /\ ret = NoOutcome
    /\ maxdepth = 0

Filter ==
    /\ pc = "ready"
    /\ result' = filter(data, tokens)
    /\ pc' = "done"
    /\ UNCHANGED <<expression, data, tokens, stack, ret, maxdepth>>

Next == Filter

Spec == Init /\ [][Next]_vars

(***************************************************************************)
(* Applying parse_expression to an expression.                             *)
(***************************************************************************)
\* The characters the expressions of the model are written with.
ExprChars == {".", "*", "a", "0"}

Expressions == UNION {[1..n -> ExprChars] : n \in 0..MaxExprLen}

InitParse ==
    /\ pc = "ready"
    /\ expression \in Expressions
    /\ data = Null
    /\ tokens = <<>>
    /\ result = NoOutcome
    /\ stack = <<>>
    /\ ret = NoOutcome
    /\ maxdepth = 0

ParseExpression ==
    /\ pc = "ready"
    /\ tokens' = parse_expression(expression)
    /\ pc' = "done"
    /\ UNCHANGED <<expression, data, result, stack, ret, maxdepth>>

NextParse == ParseExpression

SpecParse == InitParse /\ [][NextParse]_vars

(***************************************************************************)
(* filter call by call: stack holds one frame per active call.  A frame    *)
(* is "enter" until its first token is looked at, "iter" while it maps     *)
(* over an array's elements, "key" while the call it returns is running.   *)
(***************************************************************************)
Frame(v, toks) == [val |-> v, toks |-> toks, phase |-> "enter", idx |-> 0, acc |-> <<>>]

Top == stack[Len(stack)]

Caller == SubSeq(stack, 1, Len(stack) - 1)

Max(a, b) == IF a >= b THEN a ELSE b

\* The top call calls filter(v, toks) and waits in frame f.
Call(f, v, toks) ==
    /\ stack' = Caller \o <<f, Frame(v, toks)>>
    /\ maxdepth' = Max(maxdepth, Len(stack))
    /\ UNCHANGED ret

\* The top call ends with outcome o.
Return(o) ==
    /\ stack' = Caller
    /\ ret' = o
    /\ UNCHANGED maxdepth

InitEval ==
    /\ pc = "run"
    /\ expression = <<>>
    /\ data \in Values
    /\ tokens \in TokenSeqs
    /\ result = NoOutcome
    /\ stack = <<Frame(data, tokens)>>
    /\ ret = NoOutcome
    /\ maxdepth = 0

Running == pc = "run" /\ stack # <<>>

\* tokens.is_empty(): Ok(data.to_owned())
EvalEmpty ==
    /\ Running /\ Top.phase = "enter" /\ Top.toks = <<>>
    /\ Return(Owned(Top.val))
    /\ UNCHANGED <<pc, expression, data, tokens, result>>

\* Token::Any on a value that is no array
EvalAnyNonArray ==
    /\ Running /\ Top.phase = "enter" /\ Top.toks # <<>>
    /\ Top.toks[1] = Any /\ Top.val.type # "Array"
    /\ Return(WildcardError)
    /\ UNCHANGED <<pc, expression, data, tokens, result>>

\* Token::Any on an array: array.iter().map(..) starts
EvalAnyArray ==
    /\ Running /\ Top.phase = "enter" /\ Top.toks # <<>>
    /\ Top.toks[1] = Any /\ Top.val.type = "Array"
    /\ stack' = Caller \o <<[Top EXCEPT !.phase = "iter", !.idx = 1]>>
    /\ UNCHANGED <<pc, expression, data, tokens, result, ret, maxdepth>>

\* the iterator yields the next element: filter(element, tokens[1..].to_vec())
EvalIterNext ==
    /\ Running /\ Top.phase = "iter" /\ ret = NoOutcome
    /\ Top.idx <= Len(Top.val.items)
    /\ Call(Top, Top.val.items[Top.idx], Tail(Top.toks))
    /\ UNCHANGED <<pc, expression, data, tokens, result>>

\* collect takes an element's outcome: Ok is kept, anything else ends the call
EvalIterTake ==
    /\ Running /\ Top.phase = "iter" /\ ret # NoOutcome
    /\ IF ret.kind = "Ok"
       THEN /\ stack' = Caller \o <<[Top EXCEPT !.idx = @ + 1,
                                                 !.acc = Append(@, ret.value)]>>
            /\ ret' = NoOutcome
            /\ UNCHANGED maxdepth
       ELSE Return(ret)
    /\ UNCHANGED <<pc, expression, data, tokens, result>>

\* the iterator is exhausted: Ok(Value::Array(result?))
EvalIterEnd ==
    /\ Running /\ Top.phase = "iter" /\ ret = NoOutcome
    /\ Top.idx > Len(Top.val.items)
    /\ Return(Ok(Array(Top.acc)))
    /\ UNCHANGED <<pc, expression, data, tokens, result>>

\* Token::Key(key): the match on data, then the call on what it gives
EvalKey ==
    /\ Running /\ Top.phase = "enter" /\ Top.toks # <<>>
    /\ Top.toks[1] # Any
    /\ LET target == Descend(Top.val, Top.toks[1].key)
       IN IF target.kind = "Ok"
          THEN Call([Top EXCEPT !.phase = "key"], target.value, Tail(Top.toks))
          ELSE Return(target)
    /\ UNCHANGED <<pc, expression, data, tokens, result>>

\* the call of the Key arm has ended: its outcome is this call's outcome
EvalKeyReturn ==
    /\ Running /\ Top.phase = "key" /\ ret # NoOutcome
    /\ Return(ret)
    /\ UNCHANGED <<pc, expression, data, tokens, result>>

\* the outermost call has ended
EvalDone ==
    /\ pc = "run" /\ stack = <<>>
    /\ result' = ret
    /\ pc' = "done"
    /\ UNCHANGED <<expression, data, tokens, stack, ret, maxdepth>>

NextEval ==
    \/ EvalEmpty
    \/ EvalAnyNonArray
    \/ EvalAnyArray
    \/ EvalIterNext
    \/ EvalIterTake
    \/ EvalIterEnd
    \/ EvalKey
    \/ EvalKeyReturn
    \/ EvalDone

SpecEval == InitEval /\ [][NextEval]_vars

\* The walk is one sequential computation: it takes its next step.
FairSpecEval == SpecEval /\ WF_vars(NextEval)

\* The walk ends with what filter, as a function, gives.
EvalAgreesWithFilter == pc = "done" => result = filter(data, tokens)

\* The depth of the recursion never exceeds the number of tokens.
EvalDepthBounded == Len(stack) <= Len(tokens) + 1 /\ maxdepth <= Len(tokens)

\* The k-th nested call holds the tokens after the first k - 1.
EvalOneTokenPerCall ==
    \A k \in 1..Len(stack) : stack[k].toks = SubSeq(tokens, k, Len(tokens))

\* Every walk ends.
EvalTerminates == <>(pc = "done")

(***************************************************************************)
(* The error kinds of the specification, as the errors filter builds.      *)
(***************************************************************************)
KeyNotFound(key) == Err(Filtering(<<"Key ">> \o key \o <<" not in dict">>))

CannotDescendIntoScalar(key) ==
    Err(Filtering(<<"Unit can't be filtered for key ">> \o key))

WildcardOnNonArray == Err(Filtering(<<"Can't use * on non array">>))

\* The numeric-parse failure, propagated as YajqError::Parsing.
IsInvalidIndex(o) == o.kind = "Err" /\ o.error.variant = "Parsing"

\* An error value naming the index and the length; YajqError has no such variant.
IndexOutOfBounds(index, len) ==
    Err([variant |-> "IndexOutOfBounds", index |-> index, len |-> len])

Done == pc = "done"

FirstIsAny == tokens # <<>> /\ tokens[1] = Any

FirstIsKey == tokens # <<>> /\ tokens[1].tok = "Key"

\* The outcome of the remaining tokens on the i-th element of the document.
ElementOutcome(i) == filter(data.items[i], Tail(tokens))

(***************************************************************************)
(* Claims about filter, under Spec.                                        *)
(***************************************************************************)

\* C1: Any on an array whose elements all evaluate successfully against the
\* remaining tokens gives an array of the same length whose i-th element is
\* the result of the remaining tokens on the i-th input element, in order.
C1_AnyMapsEveryElement ==
    (/\ Done /\ FirstIsAny /\ data.type = "Array"
     /\ \A i \in 1..Len(data.items) : ElementOutcome(i).kind = "Ok")
    => /\ result.kind = "Ok"
       /\ result.value.type = "Array"
       /\ Len(result.value.items) = Len(data.items)
       /\ \A i \in 1..Len(data.items) :
              result.value.items[i] = ElementOutcome(i).value

\* A nested wildcard has succeeded on a non-empty array of non-empty arrays.
C1_Witness ==
    /\ Done /\ tokens = <<Any, Any>> /\ data.type = "Array"
    /\ Len(data.items) >= 1 /\ data.items[1].type = "Array"
    /\ Len(data.items[1].items) >= 1
    /\ result = Ok(data)

\* C2: a Key step on an array of length n whose key parses as an index
\* i >= n returns the error value IndexOutOfBounds(i, n): the evaluation
\* ends in an error result, not in a crash.
C2_IndexOutOfBoundsIsAnError ==
    (/\ Done /\ FirstIsKey /\ data.type = "Array"
     /\ parse_usize(tokens[1].key).kind = "Ok"
     /\ parse_usize(tokens[1].key).value >= Len(data.items))
    => /\ result.kind = "Err"
       /\ result = IndexOutOfBounds(parse_usize(tokens[1].key).value, Len(data.items))

\* C3: Any on an array with an element that fails against the remaining
\* tokens fails with the error of the first failing element in array order,
\* and returns no partial array, whatever the later elements would do.
C3_FirstFailureWins ==
    (/\ Done /\ FirstIsAny /\ data.type = "Array"
     /\ \E i \in 1..Len(data.items) : ElementOutcome(i).kind # "Ok")
    => LET first == CHOOSE i \in 1..Len(data.items) :
                        /\ ElementOutcome(i).kind # "Ok"
                        /\ \A j \in 1..(i - 1) : ElementOutcome(j).kind = "Ok"
       IN /\ result.kind = "Err"
          /\ result = ElementOutcome(first)

\* C4: Key(name) on an object with a field name gives what the remaining
\* tokens give on that field's value; on an object without it, it fails
\* with KeyNotFound(name) whatever the remaining tokens are.
C4_KeyOnObject ==
    (Done /\ FirstIsKey /\ data.type = "Object")
    => IF tokens[1].key \in DOMAIN data.fields
       THEN result = filter(data.fields[tokens[1].key], Tail(tokens))
       ELSE result = KeyNotFound(tokens[1].key)

\* A Key step has descended into a field and gone on from there.
C4_Witness ==
    /\ Done /\ FirstIsKey /\ data.type = "Object" /\ Len(tokens) >= 2
    /\ tokens[1].key \in DOMAIN data.fields
    /\ result.kind = "Ok"

\* C5: a Key step on a scalar (null, boolean, number, string) fails with
\* CannotDescendIntoScalar carrying that key, whatever the key text and the
\* remaining tokens are.
C5_ScalarDescentFails ==
    (Done /\ FirstIsKey /\ data.type \in {"Null", "Bool", "Number", "String"})
    => result = CannotDescendIntoScalar(tokens[1].key)

\* A Key step followed by more tokens has been applied to a string.
C5_Witness ==
    /\ Done /\ FirstIsKey /\ data.type = "String" /\ Len(tokens) >= 2
    /\ tokens[1].key = <<"0">>
    /\ result.kind = "Err"

\* C6: an Any step on a value that is no array (null, boolean, number,
\* string, object) fails with WildcardOnNonArray, whatever the remaining
\* tokens are.
C6_WildcardOnNonArrayFails ==
    (Done /\ FirstIsAny /\ data.type # "Array") => result = WildcardOnNonArray

\* An Any step followed by more tokens has been applied to a non-empty object.
C6_Witness ==
    /\ Done /\ FirstIsAny /\ data.type = "Object" /\ Len(tokens) >= 2
    /\ DOMAIN data.fields # {}
    /\ result.kind = "Err"

\* C8: the empty token sequence on any value succeeds with a value equal to
\* it, and the evaluation leaves the value itself unchanged.
C8_EmptyPathIsIdentity ==
    [][(pc = "ready" /\ tokens = <<>> /\ pc' = "done")
       => (result' = Ok(data) /\ data' = data)]_vars

\* The empty token sequence has been applied to an array with elements.
C8_Witness ==
    /\ Done /\ tokens = <<>> /\ data.type = "Array" /\ Len(data.items) >= 1
    /\ result.kind = "Ok"

\* C9, as stated: a Key step with empty text on an object or an array never
\* succeeds: it fails with KeyNotFound on objects and InvalidIndex on arrays.
C9_EmptyKeyNeverMatches ==
    (Done /\ FirstIsKey /\ tokens[1].key = <<>> /\ data.type \in {"Object", "Array"})
    => /\ result.kind = "Err"
       /\ (data.type = "Object" => result = KeyNotFound(<<>>))
       /\ (data.type = "Array" => IsInvalidIndex(result))

\* C9, amended: a Key step with empty text fails with InvalidIndex on every
\* array, and with KeyNotFound on every object that has no field whose name
\* is the empty string; on an object that has such a field the evaluation
\* goes on into that field's value with the remaining tokens.
C9_EmptyKeyMatchesOnlyEmptyName ==
    (Done /\ FirstIsKey /\ tokens[1].key = <<>> /\ data.type \in {"Object", "Array"})
    => /\ (data.type = "Array" => IsInvalidIndex(result))
       /\ (data.type = "Object" /\ <<>> \notin DOMAIN data.fields)
              => result = KeyNotFound(<<>>)
       /\ (data.type = "Object" /\ <<>> \in DOMAIN data.fields)
              => result = filter(data.fields[<<>>], Tail(tokens))

\* A Key step with empty text has descended into the field of an object
\* whose name is the empty string.
C9_Witness ==
    /\ Done /\ FirstIsKey /\ tokens[1].key = <<>>
    /\ data.type = "Object" /\ <<>> \in DOMAIN data.fields
    /\ result.kind = "Ok"

(***************************************************************************)
(* Claims about parse_expression, under SpecParse.                         *)
(***************************************************************************)
\* The positions of the '.' characters of the expression.
DotPositions == {p \in 1..Len(expression) : expression[p] = "."}

\* The position of the n-th '.', 0 before the first and past the end after the last.
NthDot(n) ==
    IF n = 0 THEN 0
    ELSE IF n > Cardinality(DotPositions) THEN Len(expression) + 1
    ELSE CHOOSE p \in DotPositions : Cardinality({q \in DotPositions : q <= p}) = n

\* The i-th '.'-delimited segment of the expression.
Segment(i) == SubSeq(expression, NthDot(i - 1) + 1, NthDot(i) - 1)

\* C7: parse_expression returns (number of '.' characters) + 1 tokens, in
\* segment order; the i-th is Any iff the i-th segment is exactly "*", and
\* Key(segment) otherwise, empty and numeric segments included.
C7_OneTokenPerSegment ==
    Done => /\ Len(tokens) = Cardinality(DotPositions) + 1
            /\ \A i \in 1..Len(tokens) :
                   /\ tokens[i] = Any <=> Segment(i) = <<"*">>
                   /\ tokens[i] # Any => tokens[i] = Key(Segment(i))
            /\ expression = <<>> => tokens = <<Key(<<>>)>>

\* An expression with a doubled '.' and a "*" segment has been tokenized.
C7_Witness ==
    /\ Done /\ Len(tokens) = 3
    /\ \E i \in 1..Len(tokens) : tokens[i] = Any
    /\ \E i \in 1..Len(tokens) : tokens[i] = Key(<<>>)

(***************************************************************************)
(* The claim about the recursion, under SpecEval.                          *)
(***************************************************************************)
\* C10: every evaluation terminates with a value or an error; each
\* recursive call consumes exactly one token, so the depth of the recursion
\* never exceeds the length of the token sequence.
C10_TerminatesWithValueOrError ==
    /\ EvalDepthBounded
    /\ EvalOneTokenPerCall
    /\ (pc = "done" \/ ENABLED NextEval)
    /\ (pc = "done" => result.kind \in {"Ok", "Err"})

====
